---- MODULE Spec2Model ----
(***************************************************************************)
(* Model of rodionlim/tweet: the HTTP start/stop handlers of main.go, the  *)
(* polling goroutine `start` with its closure `run`, and the parts of      *)
(* library/tweet the goroutine calls (the request object, the JSON decode  *)
(* of a response into it, and the bolt-backed cache of the newest tweet id *)
(* and of the search terms).                                               *)
(*                                                                         *)
(* Strings the code inspects are sequences: a tweet id is a sequence of    *)
(* digits, a keyword string a sequence of one-character strings.  The      *)
(* empty sequence stands for Go's "" and for a nil []byte.                 *)
(***************************************************************************)
EXTENDS Integers, Sequences, FiniteSets, TLC

\* ------------------------------------------------------------------ bounds
\* Goroutines `start` that the handlers may spawn in one run of the process.
MaxLoops == 2
\* HTTP requests (POST /start, POST /stop) served in one run of the process.
MaxReq == 3
\* Records in the "data" array of one response.
MaxRecs == 2
\* Calls of req.Get (poll iterations) in one run of the process, all loops together.
MaxFetch == 2
\* Keywords handed to WithKeywords by a caller of the library.
MaxKw == 2
\* Users handed to WithUsers by a caller of the library.
MaxUsers == 2

\* ------------------------------------------------------------ input values
\* "" as a tweet id, and the nil []byte bolt returns for a missing key.
NoID == <<>>
\* Tweet ids: decimal strings of different lengths ("9", "10", "12").
Ids == {<<9>>, <<1, 0>>, <<1, 2>>}
\* Values of a record's "text" field; "" is a present but empty text.
Texts == {"", "a"}
\* A JSON object of the "data" array without any of the fields read here.
EmptyMap == [k \in {} |-> ""]
\* The JSON objects a response may carry: with or without a "text" field.
DataMaps == {EmptyMap} \cup {[text |-> t] : t \in Texts}
\* The "keywords" field of a POST /start body.
KwInputs == {<<"a", " ", "b", ",", " ", "o">>}

\* Keywords a caller of the library passes: one-word and multi-word ones.
Words == {<<"o">>, <<"g">>, <<"c", " ", "b">>}
\* User names a caller of the library passes.
UserNames == {<<"m">>, <<"n">>}

Loops == 1..MaxLoops

VARIABLES
  Started,      \* tdata.Started
  Cancel,       \* tdata.Cancel: 0 is nil, i the cancel function of loop i's context
  Tweets,       \* tdata.Tweets: 0 is nil, i points at loop i's req.tweets
  SearchTerms,  \* tdata.SearchTerms
  mutex,        \* tdata.mutex: 0 is unlocked, i is held by loop i
  ctxDone,      \* contexts whose cancel function has been called
  db,           \* bucket "meta" of tweet.db: keys "newest" and "keywords"
  loop,         \* the goroutines `start`, by context
  hist,         \* responses the handlers have written, oldest first
  hiOffered,    \* numerically greatest id the cache has held or been offered
  fetches,      \* calls of req.Get so far
  req           \* a Req built by a caller of the library (tweet_test.go)

vars == <<Started, Cancel, Tweets, SearchTerms, mutex, ctxDone, db, loop,
          hist, hiOffered, fetches, req>>

\* ------------------------------------------------------- string primitives
\* Go's string comparison a < b: bytewise, a proper prefix is smaller.
RECURSIVE StrLess(_, _)
StrLess(a, b) ==
  IF b = <<>> THEN FALSE
  ELSE IF a = <<>> THEN TRUE
  ELSE IF a[1] # b[1] THEN a[1] < b[1]
  ELSE StrLess(Tail(a), Tail(b))

\* Go's a >= b on strings.
StrGE(a, b) == ~StrLess(a, b)

\* The number a decimal id denotes (0 for no id).
RECURSIVE NumVal(_)
NumVal(s) == IF s = <<>> THEN 0 ELSE 10 * NumVal(SubSeq(s, 1, Len(s) - 1)) + s[Len(s)]

\* strings.Split(s, ","): the pieces between commas; "" gives one empty piece.
RECURSIVE SplitFrom(_, _, _)
SplitFrom(s, cur, acc) ==
  IF s = <<>> THEN Append(acc, cur)
  ELSE IF s[1] = "," THEN SplitFrom(Tail(s), <<>>, Append(acc, cur))
  ELSE SplitFrom(Tail(s), Append(cur, s[1]), acc)

Split(s) == SplitFrom(s, <<>>, <<>>)

\* strings.TrimSpace on the characters used here.
RECURSIVE TrimLeft(_)
TrimLeft(s) == IF s # <<>> /\ s[1] = " " THEN TrimLeft(Tail(s)) ELSE s

RECURSIVE TrimRight(_)
TrimRight(s) ==
  IF s # <<>> /\ s[Len(s)] = " " THEN TrimRight(SubSeq(s, 1, Len(s) - 1)) ELSE s

TrimSpace(s) == TrimRight(TrimLeft(s))

\* strings.Join(list, ",").
RECURSIVE Join(_)
Join(list) ==
  IF list = <<>> THEN <<>>
  ELSE IF Len(list) = 1 THEN list[1]
  ELSE list[1] \o <<",">> \o Join(Tail(list))

\* fmt.Sprintf("%q", w) for a word of letters and spaces.
Quote(w) == <<"\"">> \o w \o <<"\"">>

\* len(strings.Split(w, " ")) > 1: the word holds a space.
MultiWord(w) == \E k \in 1..Len(w) : w[k] = " "

\* startHandler's parse of the "keywords" field: split on commas, trim each.
ParseKeywords(kwStr) == LET p == Split(kwStr) IN [k \in 1..Len(p) |-> TrimSpace(p[k])]

\* WithKeywords: multi-word keywords are quoted, the others kept.
WithKeywords(kw) ==
  [k \in 1..Len(kw) |-> IF MultiWord(kw[k]) THEN Quote(kw[k]) ELSE kw[k]]

\* ------------------------------------------------------------ library/tweet
\* json.Unmarshal of one JSON object into an existing map[string]string: the
\* map is reused, the object's keys are set, its other entries are kept.
Merge(old, new) ==
  [k \in DOMAIN old \cup DOMAIN new |-> IF k \in DOMAIN new THEN new[k] ELSE old[k]]

\* json.Unmarshal of a "data" array d into the slice r.tweets.Data, given as
\* its backing array arr: element k is decoded into the value already at k
\* (whether below the old length or only below the capacity), the length
\* becomes len(d), and an empty array gives a fresh empty slice.
DecodeData(arr, d) ==
  IF d = <<>> THEN <<>>
  ELSE LET n == IF Len(arr) > Len(d) THEN Len(arr) ELSE Len(d)
       IN [k \in 1..n |->
             IF k <= Len(d)
             THEN Merge(IF k <= Len(arr) THEN arr[k] ELSE EmptyMap, d[k])
             ELSE arr[k]]

\* json.Unmarshal(body, &r.tweets): only what the body holds is written; a key
\* the body lacks leaves the field as the previous response set it.
Unmarshal(rt, body) ==
  [arr    |-> IF body.hasData THEN DecodeData(rt.arr, body.data) ELSE rt.arr,
   len    |-> IF body.hasData THEN Len(body.data) ELSE rt.len,
   newest |-> IF body.newest # NoID THEN body.newest ELSE rt.newest]

\* The zero value of Tweets, as NewReq leaves r.tweets.
ZeroTweets == [arr |-> <<>>, len |-> 0, newest |-> NoID]

\* r.tweets.Data
Data(rt) == SubSeq(rt.arr, 1, rt.len)

\* The value of key "newest" after StoreLatestTweetID with r.tweets.Meta.NewestID
\* = id and prev stored: "" is not stored, and neither is an id that the
\* stored one is >= to as a string.
StoreLatestTweetID(prev, id) ==
  IF id = NoID THEN prev
  ELSE IF prev # NoID /\ StrGE(prev, id) THEN prev
  ELSE id

\* The value of key "keywords" after StoreLatestSearchTerms.
StoreLatestSearchTerms(kw) == <<Join(kw)>>

\* GetLatestSearchTerms: the stored string split on commas; nil when the key
\* is missing (the error is only logged by the callers).
GetLatestSearchTerms(stored) == IF stored = <<>> THEN <<>> ELSE Split(stored[1])

\* strings.Join(list, " OR "); " OR " is kept as one symbol.
RECURSIVE JoinOr(_)
JoinOr(list) ==
  IF list = <<>> THEN <<>>
  ELSE IF Len(list) = 1 THEN list[1]
  ELSE list[1] \o <<" OR ">> \o JoinOr(Tail(list))

\* queryParams without a "query" entry.
NoQuery == <<>>

\* No Req built.
NoReq == [keywords |-> <<>>, usersFilter |-> <<>>, keywordFilter |-> <<>>, query |-> NoQuery]

\* NewReq(WithUsers(users), WithKeywords(keywords)); the field keywords keeps
\* the argument of WithKeywords.
NewReq(users, keywords) ==
  [keywords |-> keywords, usersFilter |-> users,
   keywordFilter |-> WithKeywords(keywords), query |-> NoQuery]

\* parseQuery with the user group appended whether or not there are users.
parseQueryAlways(usersFilter, keywordFilter, query) ==
  <<"(">> \o JoinOr(keywordFilter) \o <<")">>
    \o <<"(", "from:">> \o JoinOr(usersFilter) \o <<")">>

\* The "query" parameter after parseQuery: the keyword group, then the user
\* group when there are users.  "(from:" is written once, before the joined
\* users; kf is never empty, so the parameter is always set.
parseQuery(usersFilter, keywordFilter, query) ==
  LET uf == IF Len(usersFilter) > 0
            THEN <<"(", "from:">> \o JoinOr(usersFilter) \o <<")">>
            ELSE <<>>
      kf == <<"(">> \o JoinOr(keywordFilter) \o <<")">>
  IN IF Len(uf) > 0 \/ Len(kf) > 0 THEN kf \o uf ELSE query

\* ------------------------------------------------------- responses of the API
DataArrays == UNION {[1..n -> DataMaps] : n \in 0..MaxRecs}

\* What the decode of a 200 body can see: whether it has a "data" array, the
\* array, and meta.newest_id ("" when absent).  A body that is not JSON is
\* the one without either.
Bodies ==
  {[hasData |-> TRUE, data |-> d, newest |-> n] : d \in DataArrays, n \in Ids \cup {NoID}}
  \cup {[hasData |-> FALSE, data |-> <<>>, newest |-> n] : n \in Ids \cup {NoID}}

\* ------------------------------------------------------------------- state
\* Where a goroutine `start` is: "none" not spawned, "spawned" before line
\* 158, "run" about to lock in run, "fetch" inside req.Get with the mutex
\* held, "notify" at the range loop, "terms" at lines 186-191, "select" at
\* the select, "ending" in the ctx.Done case before the lock, "exited"
\* returned, "panicked" died of a nil dereference.
\* Beside the goroutine's variables (kw, notifierObj as sink, req's since_id
\* and req.tweets as rt, whether req.Get returned a result as ok) the record
\* keeps what the goroutine has done: notified, the messages passed to Notify
\* in the current iteration; delivered, those passed in earlier iterations;
\* resp, between req.Get and the range loop, what the response just read
\* decodes to on its own.
NoLoop ==
  [pc |-> "none", kw |-> <<>>, sink |-> FALSE, first |-> TRUE, since |-> NoID,
   rt |-> ZeroTweets, ok |-> FALSE, notified |-> <<>>,
   delivered |-> {}, resp |-> ZeroTweets]

\* A goroutine that has been spawned and has not returned.
Running(i) == loop[i].pc \notin {"none", "exited", "panicked"}

\* An unrecovered panic in a goroutine ends the process.
crashed == \E i \in Loops : loop[i].pc = "panicked"

\* The contexts created so far.
Spawned == {i \in Loops : loop[i].pc # "none"}

\* The process after main has built tdata, before any request.
Boot ==
  /\ Started = FALSE
  /\ Cancel = 0
  /\ Tweets = 0
  /\ mutex = 0
  /\ ctxDone = {}
  /\ db \in [newest : {NoID, <<1, 0>>}, keywords : {<<>>}]
  /\ SearchTerms = GetLatestSearchTerms(db.keywords)
  /\ loop = [i \in Loops |-> NoLoop]
  /\ hist = <<>>
  /\ hiOffered = db.newest
  /\ fetches = 0

Init == Boot /\ req = NoReq

\* ---------------------------------------------------------------- handlers
\* POST /start.  The handler holds tdata.mutex from the check of tdata.Started
\* to its return; it stores the cancel function and spawns `start`, and it
\* does not itself set tdata.Started.
startHandler(kwStr, slack) ==
  /\ ~crashed
  /\ mutex = 0
  /\ IF Started
     THEN /\ hist' = Append(hist, [op |-> "start", res |-> "already"])
          /\ UNCHANGED <<Cancel, loop>>
     ELSE /\ Cardinality(Spawned) < MaxLoops
          /\ LET n == Cardinality(Spawned) + 1
             IN /\ Cancel' = n
                /\ loop' = [loop EXCEPT ![n] =
                              [NoLoop EXCEPT !.pc = "spawned",
                                             !.kw = ParseKeywords(kwStr),
                                             !.sink = slack]]
          /\ hist' = Append(hist, [op |-> "start", res |-> "ok"])
  /\ UNCHANGED <<Started, Tweets, SearchTerms, mutex, ctxDone, db, hiOffered, fetches, req>>

\* POST /stop.  No lock is taken; (*tdata.Cancel)() dereferences a nil pointer
\* when no start has stored a cancel function (net/http recovers the handler's
\* panic and the client gets no response), and otherwise cancels the context
\* last stored, also when it is cancelled already.
stopHandler ==
  /\ ~crashed
  /\ IF Cancel = 0
     THEN /\ hist' = Append(hist, [op |-> "stop", res |-> "panic"])
          /\ UNCHANGED ctxDone
     ELSE /\ ctxDone' = ctxDone \cup {Cancel}
          /\ hist' = Append(hist, [op |-> "stop", res |-> "ok"])
  /\ UNCHANGED <<Started, Cancel, Tweets, SearchTerms, mutex, db, loop, hiOffered, fetches, req>>

\* ------------------------------------------------------ the goroutine start
\* A goroutine that waits at the select before its first run.
start_BeginWaits(i) ==
  /\ ~crashed
  /\ loop[i].pc = "spawned"
  /\ Started' = TRUE
  /\ loop' = [loop EXCEPT ![i].pc = "select"]
  /\ UNCHANGED <<Cancel, Tweets, SearchTerms, mutex, ctxDone, db, hist, hiOffered, fetches, req>>

\* Lines 151-159: tdata.Started = true, written without the lock, and NewReq.
start_Begin(i) ==
  /\ ~crashed
  /\ loop[i].pc = "spawned"
  /\ Started' = TRUE
  /\ loop' = [loop EXCEPT ![i].pc = "run"]
  /\ UNCHANGED <<Cancel, Tweets, SearchTerms, mutex, ctxDone, db, hist, hiOffered, fetches, req>>

\* run, lines 162-166: lock, GetLatestTweetID, and SetSinceTweetID when the
\* read gave no error.  readOk = FALSE is bolt failing to open the file.
run_Lock(i) ==
  /\ ~crashed
  /\ loop[i].pc = "run"
  /\ mutex = 0
  /\ fetches < MaxFetch
  /\ fetches' = fetches + 1
  /\ mutex' = i
  /\ \E readOk \in BOOLEAN :
       loop' = [loop EXCEPT
                  ![i].pc = "fetch",
                  ![i].since = IF readOk /\ db.newest # NoID THEN db.newest ELSE @,
                  ![i].delivered = @ \cup {loop[i].notified[k] : k \in 1..Len(loop[i].notified)},
                  ![i].notified = <<>>]
  /\ UNCHANGED <<Started, Cancel, Tweets, SearchTerms, ctxDone, db, hist, hiOffered, req>>

\* run, lines 167-173 once req.Get has returned: got says whether it returned
\* a result (&r.tweets, after the decode into r.tweets) or (nil, err); then
\* StoreLatestTweetID with whatever r.tweets.Meta.NewestID holds, the
\* snapshot, and the unlock.  resp is the response decoded on its own.
run_Stored(i, got, rt, resp) ==
  /\ loop' = [loop EXCEPT ![i].pc = "notify", ![i].ok = got, ![i].rt = rt,
                          ![i].resp = resp]
  /\ db' = [db EXCEPT !.newest = StoreLatestTweetID(@, rt.newest)]
  /\ hiOffered' = IF NumVal(rt.newest) > NumVal(hiOffered) THEN rt.newest ELSE hiOffered
  /\ Tweets' = IF got THEN i ELSE 0
  /\ mutex' = 0
  /\ UNCHANGED <<Started, Cancel, SearchTerms, ctxDone, hist, fetches, req>>

\* req.Get: no bearer token or a transport error returns (nil, err) and leaves
\* r.tweets alone; otherwise the body is decoded into r.tweets.
run_Get(i) ==
  /\ ~crashed
  /\ loop[i].pc = "fetch"
  /\ mutex = i
  /\ \/ run_Stored(i, FALSE, loop[i].rt, ZeroTweets)
     \/ \E body \in Bodies :
          run_Stored(i, TRUE, Unmarshal(loop[i].rt, body), Unmarshal(ZeroTweets, body))

\* A check of the text's value in place of the check that the key exists.
HasNonEmptyText(rec) == "text" \in DOMAIN rec /\ rec.text # ""

\* Line 176: the record has a "text" entry.
HasText(rec) == "text" \in DOMAIN rec

\* run, lines 175-181, `for _, tweet := range tweets.Data` from record k on:
\* the messages passed to Notify after log, in the order of the calls.
RECURSIVE Range(_, _, _)
Range(data, k, log) ==
  IF k > Len(data) THEN log
  ELSE IF ~HasText(data[k]) THEN Range(data, k + 1, log)
  ELSE Range(data, k + 1, Append(log, data[k].text))

\* run, lines 175-181.  tweets.Data panics when tweets is nil, and
\* notifierObj.notifier panics when notifierObj is nil and a record has a
\* "text"; Notify's error is dropped.
run_Range(i) ==
  /\ ~crashed
  /\ loop[i].pc = "notify"
  /\ LET l == loop[i]
         data == Data(l.rt)
     IN loop' = [loop EXCEPT ![i] =
          IF ~l.ok THEN [l EXCEPT !.pc = "panicked", !.resp = ZeroTweets]
          ELSE IF ~l.sink /\ \E k \in 1..Len(data) : HasText(data[k])
               THEN [l EXCEPT !.pc = "panicked", !.resp = ZeroTweets]
          ELSE [l EXCEPT !.pc = IF l.first THEN "terms" ELSE "select",
                         !.resp = ZeroTweets,
                         !.notified = IF l.sink THEN Range(data, 1, <<>>) ELSE <<>>]]
  /\ UNCHANGED <<Started, Cancel, Tweets, SearchTerms, mutex, ctxDone, db, hist, hiOffered, fetches, req>>

\* Lines 186-191, after the first run: req.StoreLatestSearchTerms(), then
\* tdata.SearchTerms = GetLatestSearchTerms(), written without the lock.
start_Terms(i) ==
  /\ ~crashed
  /\ loop[i].pc = "terms"
  /\ db' = [db EXCEPT !.keywords = StoreLatestSearchTerms(WithKeywords(loop[i].kw))]
  /\ SearchTerms' = GetLatestSearchTerms(db'.keywords)
  /\ loop' = [loop EXCEPT ![i].pc = "select", ![i].first = FALSE]
  /\ UNCHANGED <<Started, Cancel, Tweets, mutex, ctxDone, hist, hiOffered, fetches, req>>

\* Line 195: the timer case of the select.
start_Tick(i) ==
  /\ ~crashed
  /\ loop[i].pc = "select"
  /\ loop' = [loop EXCEPT ![i].pc = "run"]
  /\ UNCHANGED <<Started, Cancel, Tweets, SearchTerms, mutex, ctxDone, db, hist, hiOffered, fetches, req>>

\* Line 197: the ctx.Done case of the select, taken once the context is cancelled.
start_Done(i) ==
  /\ ~crashed
  /\ loop[i].pc = "select"
  /\ i \in ctxDone
  /\ loop' = [loop EXCEPT ![i].pc = "ending"]
  /\ UNCHANGED <<Started, Cancel, Tweets, SearchTerms, mutex, ctxDone, db, hist, hiOffered, fetches, req>>

\* Lines 199-202: tdata.Started = false under the lock, and return.  The
\* goroutine's locals are gone; its req.tweets stays, tdata.Tweets may point at it.
start_Return(i) ==
  /\ ~crashed
  /\ loop[i].pc = "ending"
  /\ mutex = 0
  /\ Started' = FALSE
  /\ loop' = [loop EXCEPT ![i] = [NoLoop EXCEPT !.pc = "exited", !.rt = loop[i].rt]]
  /\ UNCHANGED <<Cancel, Tweets, SearchTerms, mutex, ctxDone, db, hist, hiOffered, fetches, req>>

\* One step of goroutine i.
start(i) ==
  \/ start_Begin(i)
  \/ run_Lock(i)
  \/ run_Get(i)
  \/ run_Range(i)
  \/ start_Terms(i)
  \/ start_Tick(i)
  \/ start_Done(i)
  \/ start_Return(i)

\* Any callers, any requests, at any time; the goroutines run as scheduled.
Next ==
  \/ /\ Len(hist) < MaxReq
     /\ \E kwStr \in KwInputs, slack \in BOOLEAN : startHandler(kwStr, slack)
  \/ /\ Len(hist) < MaxReq
     /\ stopHandler
  \/ \E i \in Loops : start(i)

Spec == Init /\ [][Next]_vars

\* One caller issuing start, start, stop, start, each request once the
\* previous one has been answered; the goroutines run as scheduled.
Script == <<"start", "start", "stop", "start">>

ScriptNext ==
  \/ /\ Len(hist) < Len(Script)
     /\ Script[Len(hist) + 1] = "start"
     /\ \E kwStr \in KwInputs, slack \in BOOLEAN : startHandler(kwStr, slack)
  \/ /\ Len(hist) < Len(Script)
     /\ Script[Len(hist) + 1] = "stop"
     /\ stopHandler
  \/ \E i \in Loops : start(i)

ScriptSpec == Init /\ [][ScriptNext]_vars

\* ------------------------------------- a provider that honours since_id
\* The "keywords" field of a POST /start body that names no keyword: absent
\* or "", keyVal["keywords"] is "".
NoKeywords == <<>>

\* The text of the tweet with a given id: different tweets, different texts.
IdText(id) == IF id = <<9>> THEN "t9" ELSE IF id = <<1, 0>> THEN "t10" ELSE "t12"

\* The tweets of S, newest first.
RECURSIVE NewestFirst(_)
NewestFirst(S) ==
  IF S = {} THEN <<>>
  ELSE LET m == CHOOSE x \in S : \A y \in S : NumVal(y) <= NumVal(x)
       IN <<[id |-> m, text |-> IdText(m)]>> \o NewestFirst(S \ {m})

\* The 200 bodies of a provider asked with since_id = since (none when
\* since is ""): at most MaxRecs tweets, all with ids numerically above
\* since, and meta.newest_id the greatest of them; a result without tweets has
\* no newest_id and has no "data" key or an empty array.
ProviderBodies(since) ==
  LET newer == {id \in Ids : NumVal(id) > NumVal(since)}
      picks == {S \in SUBSET newer : S # {} /\ Cardinality(S) <= MaxRecs}
  IN {[hasData |-> TRUE, data |-> NewestFirst(S),
       newest |-> NewestFirst(S)[1].id] : S \in picks}
     \cup {[hasData |-> h, data |-> <<>>, newest |-> NoID] : h \in BOOLEAN}

\* req.Get against that provider, with the since_id the request carries.
run_GetSince(i) ==
  /\ ~crashed
  /\ loop[i].pc = "fetch"
  /\ mutex = i
  /\ \/ run_Stored(i, FALSE, loop[i].rt, ZeroTweets)
     \/ \E body \in ProviderBodies(loop[i].since) :
          run_Stored(i, TRUE, Unmarshal(loop[i].rt, body), Unmarshal(ZeroTweets, body))

\* One step of goroutine i against that provider.
startSince(i) ==
  \/ start_Begin(i)
  \/ run_Lock(i)
  \/ run_GetSince(i)
  \/ run_Range(i)
  \/ start_Terms(i)
  \/ start_Tick(i)
  \/ start_Done(i)
  \/ start_Return(i)

\* Any requests, start bodies with and without keywords, and the provider
\* answering as asked.
SinceNext ==
  \/ /\ Len(hist) < MaxReq
     /\ \E kwStr \in KwInputs \cup {NoKeywords}, slack \in BOOLEAN :
          startHandler(kwStr, slack)
  \/ /\ Len(hist) < MaxReq
     /\ stopHandler
  \/ \E i \in Loops : startSince(i)

SinceSpec == Init /\ [][SinceNext]_vars

\* ------------------------------------------------ the library's query builder
\* The lists of at most n elements of S.
ListsOf(S, n) == UNION {[1..k -> S] : k \in 0..n}

\* Get, line 55: r.parseQuery() on a Req a caller has built.
Get_parseQuery ==
  /\ req.query = NoQuery
  /\ req' = [req EXCEPT !.query = parseQuery(req.usersFilter, req.keywordFilter, @)]
  /\ UNCHANGED <<Started, Cancel, Tweets, SearchTerms, mutex, ctxDone, db, loop,
                 hist, hiOffered, fetches>>

\* A caller builds a Req from any users and keywords, as the package's
\* Example does, and Get builds its query.
QueryInit ==
  /\ Boot
  /\ req \in {NewReq(users, keywords) :
                users \in ListsOf(UserNames, MaxUsers), keywords \in ListsOf(Words, MaxKw)}

QueryNext == Get_parseQuery

QuerySpec == QueryInit /\ [][QueryNext]_vars

\* ------------------------------------------------------------------ claims
\* The response written last.
Last(h) == h[Len(h)]

\* This step is a handler answering a request of kind op.
Responded(op) == Len(hist') = Len(hist) + 1 /\ Last(hist').op = op

\* The goroutines that are running.
Active == {i \in Loops : Running(i)}

\* C1: under every interleaving of start and stop requests at most one poll
\* loop is active at any time: two start requests never both pass the check
\* of the running flag and both spawn a loop.
AtMostOneLoop == Cardinality(Active) <= 1

\* C2: a start request served while a poll loop is running (spawned and not
\* yet returned) is answered AlreadyRunning and changes nothing: no loop is
\* spawned, the cancel function, the filters and the stored cursor stay.
StartWhileRunningRejected ==
  [][(Active # {} /\ Responded("start"))
       => (Last(hist').res = "already" /\ UNCHANGED <<loop, Cancel, db>>)]_vars

\* C3: one caller issuing start, start, stop, start back to back gets ok,
\* AlreadyRunning, ok, ok, and the last start begins a new poll loop.
ScriptAnswers ==
  /\ Len(hist) >= 1 => hist[1].res = "ok"
  /\ Len(hist) >= 2 => hist[2].res = "already"
  /\ Len(hist) >= 3 => hist[3].res = "ok"
  /\ Len(hist) >= 4 => (hist[4].res = "ok" /\ Cardinality(Spawned) = 2)

\* C4: a stop request served while no poll loop is running is answered with
\* an error (NotRunning, or IdempotentStop when no cancel function is
\* stored), not with success and not with a panic, and leaves the running
\* flag, the cancel function, the cursor and the snapshot as they were.
StopWhileIdleIsError ==
  [][(Active = {} /\ Responded("stop"))
       => (Last(hist').res \in {"notrunning", "idempotentstop"}
           /\ UNCHANGED <<Started, Cancel, db, Tweets>>)]_vars

\* C5: after a start and then a stop that returned ok the running flag gets
\* false.  Only the ctx.Done case of a running loop clears the flag, and a
\* loop takes it only once its own context is cancelled; so when the last
\* answer is a stop's ok and the flag is still set, some running loop has a
\* cancelled context.  (Where none has, no step of the program clears the
\* flag any more: a start that could store another cancel function is
\* refused while the flag is set.)
StopClearsRunningFlag ==
  (hist # <<>> /\ Last(hist) = [op |-> "stop", res |-> "ok"] /\ Started /\ ~crashed)
    => \E i \in Active : i \in ctxDone

\* C6: the stored cursor is never rewound: every change of a stored value
\* puts a value that is >= the previous one both as a string and as a
\* number, and an iteration whose candidate is not numerically greater than
\* the stored value leaves it unchanged.
CursorNeverRewound ==
  [][/\ (db.newest # NoID /\ db'.newest # db.newest)
          => (StrGE(db'.newest, db.newest) /\ NumVal(db'.newest) >= NumVal(db.newest))
     /\ \A i \in Loops :
          (loop[i].pc = "fetch" /\ loop'[i].pc = "notify" /\ db.newest # NoID
             /\ NumVal(loop'[i].rt.newest) <= NumVal(db.newest))
            => db'.newest = db.newest]_vars

\* C7: after any sequence of setCursor calls with non-empty values the stored
\* cursor is the greatest, as an id, of the prior cursor and the values
\* offered ("100", then "150", then "120" leaves "150").
CursorIsMaxOffered == db.newest = hiOffered

\* C8: a failed fetch never ends the loop: no goroutine dies in an iteration
\* whose req.Get returned an error.
FailedFetchKeepsLoop == \A i \in Loops : loop[i].pc = "panicked" => loop[i].ok

\* C9: started without a sink, every iteration skips the notify step without
\* error whatever the fetch returned: no message is passed to a notifier and
\* no goroutine dies in an iteration whose fetch succeeded.
NoSinkSkipsNotify ==
  \A i \in Loops :
    ~loop[i].sink => (loop[i].notified = <<>> /\ ~(loop[i].pc = "panicked" /\ loop[i].ok))

\* The "text" values of the records of data that have a "text" field, in order.
TextsOf(data) ==
  LET keep == SelectSeq(data, LAMBDA r : "text" \in DOMAIN r)
  IN [k \in 1..Len(keep) |-> keep[k].text]

Contains(s, t) == \E k \in 0..(Len(s) - Len(t)) : SubSeq(s, k + 1, k + Len(t)) = t

\* A keyword as the query is to show it: in double quotes when multi-word.
Shown(w) == IF \E k \in 1..Len(w) : w[k] = " " THEN <<"\"">> \o w \o <<"\"">> ELSE w

\* C11: for non-empty keywords K and any users U, two or more included, the
\* query built holds every keyword of K (in double quotes when multi-word)
\* and every user of U prefixed by "from:".
QueryHoldsAll ==
  (req.query # NoQuery /\ req.keywords # <<>>) =>
    /\ \A k \in 1..Len(req.keywords) : Contains(req.query, Shown(req.keywords[k]))
    /\ \A u \in 1..Len(req.usersFilter) :
         Contains(req.query, <<"from:">> \o req.usersFilter[u])

\* The elements of list with " OR " between them.
RECURSIVE OrJoined(_)
OrJoined(list) ==
  IF Len(list) = 0 THEN <<>>
  ELSE IF Len(list) = 1 THEN list[1]
  ELSE list[1] \o <<" OR ">> \o OrJoined(Tail(list))

\* C12: the query is the parenthesized " OR "-join of the keywords, the
\* multi-word ones quoted first, directly followed by the parenthesized user
\* group `(from:u1 OR ...)` when there are users and by nothing when there
\* are none: [o, g] without users gives `(o OR g)`, [c b] with user [m] gives
\* `("c b")(from:m)`.
QueryShape ==
  (req.query # NoQuery /\ req.keywords # <<>>) =>
    /\ req.query =
         <<"(">> \o OrJoined([k \in 1..Len(req.keywords) |-> Shown(req.keywords[k])])
           \o <<")">>
           \o (IF req.usersFilter = <<>> THEN <<>>
               ELSE <<"(", "from:">> \o OrJoined(req.usersFilter) \o <<")">>)
    /\ (req.keywords = <<<<"o">>, <<"g">>>> /\ req.usersFilter = <<>>)
         => req.query = <<"(", "o", " OR ", "g", ")">>
    /\ (req.keywords = <<<<"c", " ", "b">>>> /\ req.usersFilter = <<<<"m">>>>)
         => req.query = <<"(", "\"", "c", " ", "b", "\"", ")", "(", "from:", "m", ")">>

\* C12's cases: the queries of [o, g] without users and of [c b] with user
\* [m] have been built; here the second, two groups with nothing between.
QueryShapeWitness ==
  /\ req.keywords = <<<<"c", " ", "b">>>>
  /\ req.usersFilter = <<<<"m">>>>
  /\ req.query = <<"(", "\"", "c", " ", "b", "\"", ")", "(", "from:", "m", ")">>

\* C13: a start whose body names no keyword is rejected and starts no poll
\* loop (and building a query from no keywords gives an error, not a query):
\* every goroutine spawned has a filter with at least one keyword in it.
NoLoopWithoutKeywords ==
  \A i \in Loops :
    loop[i].pc \notin {"none", "exited"} =>
      \E k \in 1..Len(loop[i].kw) : loop[i].kw[k] # <<>>

\* C14: against a provider that returns only tweets with ids numerically
\* above the since_id it is given and reports the greatest id returned as
\* newest_id, no tweet is passed to the sink in two iterations of a loop:
\* nothing notified in an iteration whose fetch carried a since_id was
\* notified in an earlier iteration.
NoDuplicateDelivery ==
  \A i \in Loops :
    loop[i].since # NoID =>
      \A k \in 1..Len(loop[i].notified) : loop[i].notified[k] \notin loop[i].delivered

\* C15: the result an iteration works with is built from that iteration's
\* response alone: after req.Get has returned a result, its records and its
\* newest id (what is offered to the cursor store, put in the snapshot and
\* ranged over for the sink) are those the response decodes to on its own;
\* a response without records and newest id leaves an empty result.
ResultFromResponseAlone ==
  \A i \in Loops :
    (loop[i].pc = "notify" /\ loop[i].ok) =>
      /\ Data(loop[i].rt) = Data(loop[i].resp)
      /\ loop[i].rt.newest = loop[i].resp.newest

\* C16: an iteration whose fetch fails leaves the stored cursor and the
\* last-result snapshot as they were (the snapshot is neither cleared nor
\* replaced) and passes nothing to the sink.
FailedFetchInvisible ==
  [][\A i \in Loops :
       (loop[i].pc = "fetch" /\ loop'[i].pc = "notify" /\ ~loop'[i].ok)
         => (db' = db /\ Tweets' = Tweets /\ loop'[i].notified = <<>>)]_vars

\* C17: the running flag, the cancel handle and the snapshot fields are
\* written and read under the one lock only.  A goroutine's write of the
\* running flag when it begins, its write of the cached search terms, and
\* stop's read of the cancel handle are then never made while another
\* thread holds the lock.
AccessUnderLock ==
  [][((\E i \in Loops : loop[i].pc = "spawned" /\ loop'[i].pc = "run")
        \/ (\E i \in Loops : loop[i].pc = "terms" /\ loop'[i].pc = "select")
        \/ Responded("stop"))
       => mutex = 0]_vars

\* C18: the fetch of an iteration carries the cursor just read from the
\* cache, and no since parameter when the read fails or finds nothing, also
\* when an earlier iteration had read a cursor.
SinceIsCursorRead ==
  [][\A i \in Loops :
       (loop[i].pc = "run" /\ loop'[i].pc = "fetch")
         => loop'[i].since \in {NoID, db.newest}]_vars

\* C19: once a loop started with keywords K has stored the search terms, the
\* terms read back from the cache and those of the snapshot are K, element
\* for element, multi-word keywords included.
TermsRoundTrip ==
  \A i \in Loops :
    (loop[i].pc \notin {"none", "exited"} /\ ~loop[i].first) =>
      /\ GetLatestSearchTerms(db.keywords) = loop[i].kw
      /\ SearchTerms = loop[i].kw

\* C20: a loop polls first right after it has begun, before any tick and
\* before it waits at the select for the first time; every later poll
\* follows one tick taken at the select.
FirstPollImmediate ==
  [][\A i \in Loops :
       /\ (loop[i].pc # "run" /\ loop'[i].pc = "run")
            => IF loop[i].first THEN loop[i].pc = "spawned" ELSE loop[i].pc = "select"
       /\ (loop[i].pc # "select" /\ loop'[i].pc = "select")
            => (loop[i].pc \in {"notify", "terms"} /\ loop[i].ok)
       /\ (loop[i].pc # "fetch" /\ loop'[i].pc = "fetch") => loop[i].pc = "run"]_vars

\* C20's case: a loop has polled at once, has taken a tick at the select and
\* is in its second poll.
FirstPollImmediateWitness ==
  \E i \in Loops : ~loop[i].first /\ loop[i].pc = "fetch" /\ fetches = 2

\* C21: the running flag and the cancel handle describe every live poll
\* loop: a loop that runs and has not been cancelled is the one whose cancel
\* function the controller holds, so that a stop reaches it; and when the
\* running flag is false no loop is polling (a start whose goroutine has not
\* begun yet counts as still in progress).
NoOrphanLoop ==
  ~crashed =>
    /\ \A i \in Active : i \notin ctxDone => Cancel = i
    /\ ~Started => \A i \in Active : loop[i].pc = "spawned"

====
